---- MODULE Spec2Model ----
(***************************************************************************)
(* Model of the hssl training pipeline: the checkpoint store               *)
(* (store_state / restore_state), the scoped SIGINT handler                *)
(* (with_interrupt_handler), the training loop (run), the patch dataset    *)
(* (Slide.__getitem__), the design encoder (design_matrix_from) and        *)
(* zip_dicts.                                                              *)
(***************************************************************************)
EXTENDS Integers, Sequences, FiniteSets, TLC

\* ------------------------------------------------------------------ bounds
MaxOptimizers == 2      \* live optimizers of the checkpoint specification
MaxStateVal == 1        \* model / optimizer state values are 0..MaxStateVal
MaxGroups == 2          \* parameter-group counts of a stored optimizer state
MaxSavedIter == 2       \* iteration numbers of checkpoint calls are 1..MaxSavedIter

\* ------------------------------------------------------------ state
VARIABLES
    model,        \* state_dict of the live model (abstract value)
    optimizers,   \* list of the live optimizers: [groups, st]
    files,        \* the checkpoint file: the record it holds
    saved,        \* what the last store_state call was given (history)
    lastCall,     \* the last checkpoint call and its outcome (history)
    sigint,       \* the process's SIGINT handler
    frames,       \* the _wrapper calls in progress, innermost last
    lastExit,     \* the last exit from a _wrapper call (history)
    run,          \* the control state of run(): pc, counters, gradients
    hist,         \* what run() has done so far (history)
    chkpts,       \* the checkpoints run() has written
    slide,        \* the Slide: its label crops by index and its count matrix
    item,         \* the last Slide.__getitem__ call and its result
    design,       \* the design table given to design_matrix_from
    covariates,   \* its covariates argument
    encoded,      \* what design_matrix_from returned or raised
    ds,           \* the records given to zip_dicts
    zipped        \* what zip_dicts returned or raised

ckptVars == <<model, optimizers, files, saved, lastCall>>
sigVars == <<sigint, frames, lastExit>>
runVars == <<run, hist, chkpts>>
slideVars == <<slide, item>>
designVars == <<design, covariates, encoded>>
zipVars == <<ds, zipped>>

\* What the operations of one component leave alone.
exceptCkpt == <<sigVars, runVars, slideVars, designVars, zipVars>>
exceptSig == <<ckptVars, runVars, slideVars, designVars, zipVars>>
exceptRun == <<slideVars, designVars, zipVars>>
exceptSlide == <<ckptVars, sigVars, runVars, designVars, zipVars>>
exceptDesign == <<ckptVars, sigVars, runVars, slideVars, zipVars>>
exceptZip == <<ckptVars, sigVars, runVars, slideVars, designVars>>

Min(a, b) == IF a <= b THEN a ELSE b

\* ---------------------------------------------------------- checkpoint store

\* The live optimizers all have one parameter group.
LiveGroups == 1

OptState == [groups : 1..MaxGroups, st : 0..MaxStateVal]
LiveOptState == [groups : {LiveGroups}, st : 0..MaxStateVal]

SeqsUpTo(S, n) == UNION {[1..k -> S] : k \in 0..n}

\* A file that does not exist: t.load raises.
NoFile == [key |-> "absent", model |-> 0, optimizers |-> <<>>, iteration |-> 0]

\* Nothing saved yet.
NoSave == [valid |-> FALSE, model |-> 0, optimizers |-> <<>>, iteration |-> 0]

NoCall == [op |-> "none", outcome |-> "none", ret |-> 0, passed |-> 0,
           preModel |-> 0, preOpts |-> <<>>, rec |-> NoFile]

\* Records whose model state sits under the key 'vae': the only ones
\* restore_state can read.  store_state never writes one.
VaeRecords ==
    [key : {"vae"}, model : 0..MaxStateVal,
     optimizers : SeqsUpTo(OptState, MaxOptimizers),
     iteration : 1..MaxSavedIter]

\* store_state: the record t.save writes.  state_dict() and pickling keep
\* the values as they are; the model state goes under the key 'model'.
StoreRecord(m, opts, iteration) ==
    [key |-> "model", model |-> m, optimizers |-> opts, iteration |-> iteration]

\* optimizer.load_state_dict: raises ValueError when the stored state has
\* another number of parameter groups, otherwise installs it.
LoadFails(opt, st) == opt.groups # st.groups

\* The for loop over zip(optimizers, state['optimizers']), from position k:
\* zip stops at the shorter list; a load that raises ends the loop with the
\* earlier loads applied.
RECURSIVE LoadOptimizers(_, _, _)
LoadOptimizers(opts, states, k) ==
    IF k > Min(Len(opts), Len(states))
    THEN [ok |-> TRUE, opts |-> opts]
    ELSE IF LoadFails(opts[k], states[k])
         THEN [ok |-> FALSE, opts |-> opts]
         ELSE LoadOptimizers([opts EXCEPT ![k] = states[k]], states, k + 1)

\* restore_state(model, optimizers, file) for the record rec held by file:
\* the outcome, the value returned, and the model and optimizers (the ones
\* passed) after the call.
RestoreResult(m, opts, rec) ==
    IF rec.key = "absent"
    THEN [outcome |-> "FileNotFoundError", ret |-> 0, model |-> m, opts |-> opts]
    ELSE IF rec.key # "vae"
    THEN [outcome |-> "KeyError", ret |-> 0, model |-> m, opts |-> opts]
    ELSE LET loaded == LoadOptimizers(opts, rec.optimizers, 1) IN
         IF ~loaded.ok
         THEN [outcome |-> "ValueError", ret |-> 0,
               model |-> rec.model, opts |-> loaded.opts]
         ELSE [outcome |-> "ok", ret |-> rec.iteration,
               model |-> rec.model, opts |-> loaded.opts]

\* store_state(model, optimizers[:k], iteration, file)
StoreState(k, iteration) ==
    /\ files' = StoreRecord(model, SubSeq(optimizers, 1, k), iteration)
    /\ saved' = [valid |-> TRUE, model |-> model,
                 optimizers |-> SubSeq(optimizers, 1, k), iteration |-> iteration]
    /\ lastCall' = [op |-> "store", outcome |-> "ok", ret |-> 0, passed |-> k,
                    preModel |-> model, preOpts |-> optimizers, rec |-> files']
    /\ UNCHANGED <<model, optimizers, exceptCkpt>>

\* restore_state(model, optimizers[:k], file)
RestoreState(k) ==
    LET r == RestoreResult(model, SubSeq(optimizers, 1, k), files) IN
    /\ model' = r.model
    /\ optimizers' = r.opts \o SubSeq(optimizers, k + 1, Len(optimizers))
    /\ lastCall' = [op |-> "restore", outcome |-> r.outcome, ret |-> r.ret,
                    passed |-> k, preModel |-> model, preOpts |-> optimizers,
                    rec |-> files]
    /\ UNCHANGED <<files, saved, exceptCkpt>>

\* Training between two checkpoint calls, or a fresh instance of the same
\* shape: the model and the optimizers take other state values.
Train ==
    /\ model' \in 0..MaxStateVal
    /\ optimizers' \in [1..MaxOptimizers -> LiveOptState]
    /\ <<model', optimizers'>> # <<model, optimizers>>
    /\ lastCall' = [NoCall EXCEPT !.op = "train"]
    /\ UNCHANGED <<files, saved, exceptCkpt>>

CkptIdle ==
    /\ model = 0
    /\ optimizers = <<[groups |-> LiveGroups, st |-> 0]>>
    /\ files = NoFile
    /\ saved = NoSave
    /\ lastCall = NoCall

\* ------------------------------------------------------------ bounds
MaxDepth == 3           \* nested wrapped calls in progress at once
MaxIter == 50001        \* iterations of the training loop that are explored

\* ------------------------------------------------- with_interrupt_handler

\* Python starts with signal.default_int_handler, which raises
\* KeyboardInterrupt; "h1" and "h2" are handlers a caller passes.
DefaultHandler == "default"
Handlers == {DefaultHandler, "h1", "h2"}

NoExit == [kind |-> "none", previous |-> DefaultHandler, handler |-> DefaultHandler]

\* _wrapper, up to the call of func: previous_handler is read and the
\* handler installed.
WrapperEnter(handler) ==
    /\ Len(frames) < MaxDepth
    /\ frames' = Append(frames, [previous |-> sigint, handler |-> handler])
    /\ sigint' = handler
    /\ lastExit' = NoExit
    /\ UNCHANGED exceptSig

Top == frames[Len(frames)]
Pop == SubSeq(frames, 1, Len(frames) - 1)

\* func returns: _wrapper reinstalls previous_handler and returns.
WrapperReturn ==
    /\ Len(frames) > 0
    /\ sigint' = Top.previous
    /\ frames' = Pop
    /\ lastExit' = [kind |-> "return", previous |-> Top.previous,
                    handler |-> Top.handler]
    /\ UNCHANGED exceptSig

\* func raises: the exception leaves _wrapper at the call of func, and the
\* statement after it is not run.
WrapperRaise ==
    /\ Len(frames) > 0
    /\ sigint' = sigint
    /\ frames' = Pop
    /\ lastExit' = [kind |-> "raise", previous |-> Top.previous,
                    handler |-> Top.handler]
    /\ UNCHANGED exceptSig

SigInit ==
    /\ sigint \in Handlers
    /\ frames = <<>>
    /\ lastExit = NoExit

SigIdle ==
    /\ sigint = DefaultHandler
    /\ frames = <<>>
    /\ lastExit = NoExit

SigNext ==
    \/ \E h \in Handlers : WrapperEnter(h)
    \/ WrapperReturn
    \/ WrapperRaise

\* --------------------------------------------------------------- run()

CheckpointInterval == 50000
ReportIntervals == {50, 100}    \* run()'s default and main()'s default

\* The checkpoint files run(state=...) is started on.
RunRecords ==
    [key : {"vae", "model"}, model : {MaxStateVal},
     optimizers : {<<>>} \cup {<<o>> : o \in [groups : 1..MaxGroups, st : {MaxStateVal}]},
     iteration : {MaxSavedIter, CheckpointInterval - 1, CheckpointInterval}]

Running == {"forward", "zero_grad", "backward", "step", "postprocess"}

NoHist == [fwd |-> 0, stepped |-> 0, posted |-> 0, firstLogged |-> 0,
           logged |-> 0, images |-> 0, stoppedAt |-> "none"]

\* run() up to the first _step: the model and the optimizer are built, the
\* checkpoint is restored when one is given, and the generator over
\* it.count(1) is started inside the first pass of the loop over
\* it.count(start_epoch).
RunStart ==
    /\ run.pc = "init"
    /\ IF run.state
       THEN LET r == RestoreResult(model, optimizers, files) IN
            /\ model' = r.model
            /\ optimizers' = r.opts
            /\ run' = IF r.outcome = "ok"
                      THEN [run EXCEPT !.pc = "forward", !.start_epoch = r.ret,
                                       !.iteration = r.ret, !.i = 1,
                                       !.model0 = r.model]
                      ELSE [run EXCEPT !.pc = "crashed", !.error = r.outcome]
       ELSE /\ run' = [run EXCEPT !.pc = "forward", !.start_epoch = 1,
                                  !.iteration = 1, !.i = 1, !.model0 = model]
            /\ UNCHANGED <<model, optimizers>>
    /\ UNCHANGED <<files, saved, lastCall, hist, chkpts, sigVars, exceptRun>>

\* _step, the forward pass and the loss.
Forward ==
    /\ run.pc = "forward"
    /\ run.i <= MaxIter
    /\ run' = [run EXCEPT !.pc = "zero_grad"]
    /\ hist' = [hist EXCEPT !.fwd = run.i]
    /\ UNCHANGED <<ckptVars, chkpts, sigVars, exceptRun>>

\* optimizer.zero_grad()
ZeroGrad ==
    /\ run.pc = "zero_grad"
    /\ run' = [run EXCEPT !.pc = "backward", !.grads = "zero"]
    /\ UNCHANGED <<ckptVars, hist, chkpts, sigVars, exceptRun>>

\* loss.backward()
Backward ==
    /\ run.pc = "backward"
    /\ run' = [run EXCEPT !.pc = "step", !.grads = "fresh"]
    /\ UNCHANGED <<ckptVars, hist, chkpts, sigVars, exceptRun>>

\* A step that is started but not applied when the loop moves on.
OptStepDeferred ==
    /\ run.pc = "step"
    /\ run' = [run EXCEPT !.pc = "postprocess", !.grads = "used"]
    /\ UNCHANGED <<ckptVars, hist, chkpts, sigVars, exceptRun>>

\* optimizer.step(): the parameters and the optimizer's state move on.
OptStep ==
    /\ run.pc = "step"
    /\ model' = model + 1
    /\ optimizers' = [optimizers EXCEPT ![1].st = @ + 1]
    /\ run' = [run EXCEPT !.pc = "postprocess", !.grads = "used"]
    /\ hist' = [hist EXCEPT !.stepped = run.i]
    /\ UNCHANGED <<files, saved, lastCall, chkpts, sigVars, exceptRun>>

\* collect_items and _postprocess(i, output): the log line, the checkpoint,
\* the report images; then the generator moves to the next i.
Postprocess ==
    /\ run.pc = "postprocess"
    /\ hist' = [hist EXCEPT
                  !.logged = run.i,
                  !.firstLogged = IF @ = 0 THEN run.i ELSE @,
                  !.images = IF run.i % run.report_interval = 0 THEN run.i ELSE @,
                  !.posted = run.i]
    /\ chkpts' = IF run.i % CheckpointInterval = 0
                 THEN chkpts \cup {[name |-> run.i,
                                    rec |-> StoreRecord(model, optimizers, run.i)]}
                 ELSE chkpts
    /\ run' = [run EXCEPT !.pc = "forward", !.i = @ + 1]
    /\ UNCHANGED <<ckptVars, sigVars, exceptRun>>

\* SIGINT while run() executes.  run() installs no handler, so the handler
\* is the one of the process: default_int_handler raises KeyboardInterrupt
\* at the point the loop has reached, and nothing in run() catches it.
Interrupt ==
    /\ run.pc \in Running
    /\ sigint = DefaultHandler
    /\ run' = [run EXCEPT !.pc = "stopped", !.error = "KeyboardInterrupt"]
    /\ hist' = [hist EXCEPT !.stoppedAt = run.pc]
    /\ UNCHANGED <<ckptVars, chkpts, sigVars, exceptRun>>

RunIdle ==
    /\ run = [pc |-> "idle", state |-> FALSE, report_interval |-> 50,
              start_epoch |-> 0, iteration |-> 0, i |-> 0, grads |-> "none",
              model0 |-> 0, error |-> "none"]
    /\ hist = NoHist
    /\ chkpts = {}

RunInit ==
    /\ model = 0
    /\ optimizers = <<[groups |-> LiveGroups, st |-> 0]>>
    /\ files \in RunRecords \cup {NoFile}
    /\ saved = NoSave
    /\ lastCall = NoCall
    /\ \E st \in BOOLEAN, ri \in ReportIntervals :
         /\ ~st => files = NoFile
         /\ run = [pc |-> "init", state |-> st, report_interval |-> ri,
                   start_epoch |-> 0, iteration |-> 0, i |-> 0, grads |-> "none",
                   model0 |-> 0, error |-> "none"]
    /\ hist = NoHist
    /\ chkpts = {}

RunNext ==
    \/ RunStart
    \/ Forward
    \/ ZeroGrad
    \/ Backward
    \/ OptStep
    \/ Postprocess
    \/ Interrupt

\* ------------------------------------------------------------ bounds
PatchSize == 3          \* a crop is PatchSize x PatchSize pixels
NumSegments == 2        \* label ids are 0..NumSegments, 0 the background
NumPatches == 2         \* len(slide): the indices are 0..NumPatches-1
NumGenes == 1           \* columns of the count matrix
RecursionLimit == 4     \* nested __getitem__ calls before RecursionError

\* --------------------------------------------------------------- Slide

Cells == (1..PatchSize) \X (1..PatchSize)

OnEdge(p) == p[1] \in {1, PatchSize} \/ p[2] \in {1, PatchSize}

\* The label crops _get_patch yields: the interior pixels carry one id and
\* the border pixels another.
Crop(c, r) == [p \in Cells |-> IF OnEdge(p) THEN r ELSE c]

Crops == {Crop(c, r) : c \in 0..NumSegments, r \in 0..NumSegments}

\* The rows of the count matrix: all zero, or a count in every gene.
CountRows == {[g \in 1..NumGenes |-> 0], [g \in 1..NumGenes |-> 1]}

RECURSIVE RowSum(_, _)
RowSum(row, g) == IF g = 0 THEN 0 ELSE row[g] + RowSum(row, g - 1)

\* Slide.__init__: _zero_data is 0 and the ids of the all-zero count rows.
ZeroData(data) ==
    {0} \cup {x + 1 : x \in {y \in 0..(NumSegments - 1) : RowSum(data[y + 1], NumGenes) = 0}}

\* np.isin(label, zero): the pixels whose id is in zero.
IsIn(label, zero) == {p \in Cells : label[p] \in zero}

\* The pixels next to p (binary_fill_holes uses the cross-shaped structure).
Neighbours(p) ==
    {<<p[1] + 1, p[2]>>, <<p[1] - 1, p[2]>>, <<p[1], p[2] + 1>>, <<p[1], p[2] - 1>>}
    \cap Cells

\* The dilation binary_fill_holes iterates: from the pixels reached, into
\* the pixels of the complement next to them, until nothing is added.
RECURSIVE Grow(_, _)
Grow(reached, complement) ==
    LET next == reached \cup {p \in complement : Neighbours(p) \cap reached # {}}
    IN IF next = reached THEN reached ELSE Grow(next, complement)

\* binary_fill_holes(mask): everything but the part of the complement that
\* is connected to the outside of the image.
BinaryFillHoles(mask) ==
    LET complement == Cells \ mask
    IN Cells \ Grow({p \in complement : OnEdge(p)}, complement)

\* label[np.invert(binary_fill_holes(np.isin(label, zero)))] = 0
RemovePartial(label, zero) ==
    LET filled == BinaryFillHoles(IsIn(label, zero))
    IN [p \in Cells |-> IF p \notin filled THEN 0 ELSE label[p]]

\* sorted(S) for a set of integers
RECURSIVE Sorted(_)
Sorted(S) ==
    IF S = {} THEN <<>>
    ELSE LET m == CHOOSE x \in S : \A y \in S : x <= y
         IN <<m>> \o Sorted(S \ {m})

\* [*sorted(np.unique(label))]
Labels(label) == Sorted({label[p] : p \in Cells})

IsPositive(x) == x > 0

\* self._data[[x - 1 for x in labels if x > 0]]: the rows picked, each with
\* its index in the count matrix.
GatherRows(data, labels) ==
    LET ids == SelectSeq(labels, IsPositive)
    IN [j \in 1..Len(ids) |-> [row |-> ids[j] - 1, counts |-> data[ids[j] - 1 + 1]]]

\* np.searchsorted(labels, v): the number of entries of labels below v.
SearchSorted(labels, v) == Cardinality({j \in 1..Len(labels) : labels[j] < v})

NoLabel == [p \in Cells |-> 0]

\* __getitem__ without the test for an empty count matrix.
RECURSIVE GetItemNoRetry(_, _, _)
GetItemNoRetry(s, idx, depth) ==
    LET label == RemovePartial(s.patches[idx], ZeroData(s.data))
        labels == Labels(label)
    IN [outcome |-> "ok", idx |-> idx, attempts |-> depth,
        label |-> [p \in Cells |-> SearchSorted(labels, label[p])],
        data |-> GatherRows(s.data, labels)]

\* len(self): the number of indices of the dataset.
SlideLen(s) == Cardinality(DOMAIN s.patches)

\* Slide.__getitem__(idx), as the depth-th nested call: the crop is
\* cleaned, the count rows gathered, and the call repeated at
\* (idx + 1) % len(self) when there is no row.
RECURSIVE GetItemFrom(_, _, _)
GetItemFrom(s, idx, depth) ==
    IF depth > RecursionLimit
    THEN [outcome |-> "RecursionError", idx |-> idx, attempts |-> depth - 1,
          label |-> NoLabel, data |-> <<>>]
    ELSE LET label == RemovePartial(s.patches[idx], ZeroData(s.data))
             labels == Labels(label)
             data == GatherRows(s.data, labels)
         IN IF Len(data) = 0
            THEN GetItemFrom(s, (idx + 1) % SlideLen(s), depth + 1)
            ELSE [outcome |-> "ok", idx |-> idx, attempts |-> depth,
                  label |-> [p \in Cells |-> SearchSorted(labels, label[p])],
                  data |-> data]

NoItem == [arg |-> 0, res |-> [outcome |-> "none"]]

\* slide[idx].  One call is followed per behaviour: __getitem__ changes
\* nothing of the slide, so a later call starts from what the first one saw.
GetItem(idx) ==
    /\ item = NoItem
    /\ item' = [arg |-> idx, res |-> GetItemFrom(slide, idx, 1)]
    /\ UNCHANGED <<slide, exceptSlide>>

SlideInit ==
    /\ slide \in [patches : [0..(NumPatches - 1) -> Crops],
                  data : [1..NumSegments -> CountRows]]
    /\ item = NoItem

SlideIdle ==
    /\ slide = [patches |-> [i \in 0..(NumPatches - 1) |-> NoLabel],
                data |-> [x \in 1..NumSegments |-> [g \in 1..NumGenes |-> 0]]]
    /\ item = NoItem

SlideNext == \E idx \in 0..(SlideLen(slide) - 1) : GetItem(idx)

\* A dataset with more indices than __getitem__ can nest calls.  Its crops
\* are the two kinds the retry tells apart: one with nothing but background,
\* and one with segment 1 enclosed by background.
LongLen == RecursionLimit + 1
LongCrops == {NoLabel, Crop(1, 0)}

SlideLongInit ==
    /\ slide \in [patches : [0..(LongLen - 1) -> LongCrops],
                  data : [1..NumSegments -> CountRows]]
    /\ item = NoItem

\* ------------------------------------------------------------ bounds
NumCols == 2            \* covariate names are 1..NumCols, in sorted order
NumSamples == 2         \* rows of the design table
NumValues == 3          \* category values are 1..NumValues, in sorted order
MaxCovariates == 1      \* entries of the covariates argument
NumKeys == 2            \* dict keys are 1..NumKeys
MaxValue == 1           \* dict values are 0..MaxValue
MaxRecords == 3         \* records given to zip_dicts

\* -------------------------------------------------- design_matrix_from

\* A value that is in none of the categories: pandas keeps it as NaN.
NaN == 0

Designs ==
    UNION {[cols : {c}, val : [c -> [1..NumSamples -> 1..NumValues]]] :
           c \in SUBSET (1..NumCols)}

CovariateArgs ==
    [given : {FALSE}, list : {<<>>}]
    \cup [given : {TRUE},
          list : SeqsUpTo([name : 1..NumCols, values : SUBSET (1..NumValues)],
                          MaxCovariates)]

\* .astype(str).astype('category'): the column with the sorted values seen
\* in it as categories.
AsCategory(column) ==
    [cats |-> Sorted({column[x] : x \in 1..NumSamples}), vals |-> column]

\* cat.set_categories(sorted(values), inplace=True): the categories are
\* replaced; a value that is not among the new ones becomes NaN.
SetCategories(column, values) ==
    [cats |-> Sorted(values),
     vals |-> [x \in 1..NumSamples |->
                 IF column.vals[x] \in values THEN column.vals[x] ELSE NaN]]

\* The loop over covariates, from entry k on: the categories of each named
\* column are set in turn.
RECURSIVE SetAll(_, _, _)
SetAll(table, list, k) ==
    IF k > Len(list) THEN table
    ELSE SetAll([table EXCEPT ![list[k].name] =
                     SetCategories(table[list[k].name], list[k].values)],
                list, k + 1)

\* cat.codes: the position of the value among the categories, from 0, and
\* -1 for NaN.
CatCode(cats, v) ==
    IF \E j \in 1..Len(cats) : cats[j] = v
    THEN (CHOOSE j \in 1..Len(cats) : cats[j] = v) - 1
    ELSE -1

\* np.eye(n)[:, code]: a negative index counts from the last column.
EyeColumn(n, code) ==
    LET at == IF code < 0 THEN n + code ELSE code
    IN [r \in 1..n |-> IF r - 1 = at THEN 1 ELSE 0]

\* _encode(covariate): the categories as row index and, for each sample,
\* the column of the identity matrix its code picks.
Encode(key, column) ==
    [key |-> key, index |-> column.cats,
     cols |-> [x \in 1..NumSamples |->
                 EyeColumn(Len(column.cats), CatCode(column.cats, column.vals[x]))]]

\* np.eye(n)[:, codes] raises IndexError when a code is out of range: code
\* -1 with no category at all.
EncodeFails(column) ==
    column.cats = <<>> /\ \E x \in 1..NumSamples : column.vals[x] = NaN

NoEncoding == [outcome |-> "none", missing |-> <<>>, blocks |-> <<>>]

\* design_matrix_from(design, covariates)
DesignMatrixFrom(d, cov) ==
    IF d.cols = {}
    THEN [outcome |-> "ok", missing |-> <<>>, blocks |-> <<>>]
    ELSE LET table == [c \in d.cols |-> AsCategory(d.val[c])]
             NotInDesign(e) == e.name \notin d.cols
             missing == SelectSeq(cov.list, NotInDesign)
             names == IF cov.given
                      THEN [j \in 1..Len(cov.list) |-> cov.list[j].name]
                      ELSE Sorted(d.cols)
         IN IF cov.given /\ missing # <<>>
            THEN [outcome |-> "ValueError",
                  missing |-> [j \in 1..Len(missing) |-> missing[j].name],
                  blocks |-> <<>>]
            ELSE LET final == IF cov.given THEN SetAll(table, cov.list, 1) ELSE table
                 IN IF names = <<>>
                    THEN [outcome |-> "ValueError", missing |-> <<>>, blocks |-> <<>>]
                    ELSE IF \E j \in 1..Len(names) : EncodeFails(final[names[j]])
                    THEN [outcome |-> "IndexError", missing |-> <<>>, blocks |-> <<>>]
                    ELSE [outcome |-> "ok", missing |-> <<>>,
                          blocks |-> [j \in 1..Len(names) |->
                                        Encode(names[j], final[names[j]])]]

DesignCall ==
    /\ encoded' = DesignMatrixFrom(design, covariates)
    /\ UNCHANGED <<design, covariates, exceptDesign>>

DesignInit ==
    /\ design \in Designs
    /\ covariates \in CovariateArgs
    /\ encoded = NoEncoding

DesignIdle ==
    /\ design = [cols |-> {}, val |-> <<>>]
    /\ covariates = [given |-> FALSE, list |-> <<>>]
    /\ encoded = NoEncoding

\* ------------------------------------------------------------ zip_dicts

Dicts == UNION {[K -> 0..MaxValue] : K \in SUBSET (1..NumKeys)}

NoZip == [outcome |-> "none", d |-> <<>>]

\* for k, v in d_.items(): d[k].append(v), for the keys of d_ not yet
\* visited; d[k] raises KeyError for a key that d does not have.
RECURSIVE AppendItems(_, _, _)
AppendItems(d, rec, keys) ==
    IF keys = {} THEN [ok |-> TRUE, d |-> d]
    ELSE LET k == CHOOSE x \in keys : \A y \in keys : x <= y
         IN IF k \notin DOMAIN d
            THEN [ok |-> FALSE, d |-> d]
            ELSE AppendItems([d EXCEPT ![k] = Append(@, rec[k])], rec, keys \ {k})

\* The loop over it.chain([d0], ds), from record j on.
RECURSIVE ZipFrom(_, _, _)
ZipFrom(d, records, j) ==
    IF j > Len(records) THEN [outcome |-> "ok", d |-> d]
    ELSE LET r == AppendItems(d, records[j], DOMAIN records[j])
         IN IF r.ok THEN ZipFrom(r.d, records, j + 1)
            ELSE [outcome |-> "KeyError", d |-> <<>>]

\* zip_dicts(ds): next(ds) raises StopIteration when there is no record.
ZipDicts(records) ==
    IF Len(records) = 0
    THEN [outcome |-> "StopIteration", d |-> <<>>]
    ELSE ZipFrom([k \in DOMAIN records[1] |-> <<>>], records, 1)

ZipCall ==
    /\ zipped' = ZipDicts(ds)
    /\ UNCHANGED <<ds, exceptZip>>

ZipInit ==
    /\ ds \in SeqsUpTo(Dicts, MaxRecords)
    /\ zipped = NoZip

ZipIdle ==
    /\ ds = <<>>
    /\ zipped = NoZip

\* ------------------------------------------------------- specifications
vars == <<model, optimizers, files, saved, lastCall, sigint, frames, lastExit,
          run, hist, chkpts, slide, item, design, covariates, encoded, ds, zipped>>

CkptInit ==
    /\ model \in 0..MaxStateVal
    /\ optimizers \in [1..MaxOptimizers -> LiveOptState]
    /\ files \in VaeRecords \cup {NoFile}
    /\ saved = NoSave
    /\ lastCall = NoCall

CkptNext ==
    \/ \E k \in 0..MaxOptimizers, n \in 1..MaxSavedIter : StoreState(k, n)
    \/ \E k \in 0..MaxOptimizers : RestoreState(k)
    \/ Train

InitCkpt == CkptInit /\ SigIdle /\ RunIdle /\ SlideIdle /\ DesignIdle /\ ZipIdle

SpecCkpt == InitCkpt /\ [][CkptNext]_vars

InitSig == SigInit /\ CkptIdle /\ RunIdle /\ SlideIdle /\ DesignIdle /\ ZipIdle

SpecSig == InitSig /\ [][SigNext]_vars

InitRun == RunInit /\ SigIdle /\ SlideIdle /\ DesignIdle /\ ZipIdle

SpecRun == InitRun /\ [][RunNext]_vars

InitSlide == SlideInit /\ CkptIdle /\ SigIdle /\ RunIdle /\ DesignIdle /\ ZipIdle

SpecSlide == InitSlide /\ [][SlideNext]_vars

InitSlideLong == SlideLongInit /\ CkptIdle /\ SigIdle /\ RunIdle /\ DesignIdle /\ ZipIdle

SpecSlideLong == InitSlideLong /\ [][SlideNext]_vars

InitDesign == DesignInit /\ CkptIdle /\ SigIdle /\ RunIdle /\ SlideIdle /\ ZipIdle

SpecDesign == InitDesign /\ [][DesignCall]_vars

InitZip == ZipInit /\ CkptIdle /\ SigIdle /\ RunIdle /\ SlideIdle /\ DesignIdle

SpecZip == InitZip /\ [][ZipCall]_vars

\* ================================================================ claims

\* C1: a record written by store_state(model, optimizers, N, file) and read
\* back by restore_state with as many optimizers restores: the call
\* succeeds, returns N, and the model and each optimizer passed hold the
\* state they had at the save.
C1_RoundTrip ==
    (/\ lastCall.op = "restore"
     /\ saved.valid
     /\ lastCall.passed = Len(saved.optimizers))
    => /\ lastCall.outcome = "ok"
       /\ lastCall.ret = saved.iteration
       /\ model = saved.model
       /\ SubSeq(optimizers, 1, lastCall.passed) = saved.optimizers

\* C2: restore_state on a record whose number of optimizer states differs
\* from the number of optimizers passed fails with StateMismatch, and
\* returns no iteration number.
C2_StateMismatch ==
    (/\ lastCall.op = "restore"
     /\ lastCall.rec.key # "absent"
     /\ Len(lastCall.rec.optimizers) # lastCall.passed)
    => lastCall.outcome = "StateMismatch"

\* The model and every optimizer passed hold the record's states.
AllInstalled ==
    /\ model = lastCall.rec.model
    /\ Len(lastCall.rec.optimizers) = lastCall.passed
    /\ \A j \in 1..lastCall.passed : optimizers[j] = lastCall.rec.optimizers[j]

\* C3: restore_state is all-or-nothing: it returns with the model and every
\* optimizer installed from the record, or it fails and the model and the
\* optimizers are as they were before the call.
C3_AllOrNothing ==
    lastCall.op = "restore"
    => \/ lastCall.outcome = "ok" /\ AllInstalled
       \/ /\ lastCall.outcome # "ok"
          /\ model = lastCall.preModel
          /\ optimizers = lastCall.preOpts

\* C4: on every exit from a call wrapped by with_interrupt_handler, by
\* return or by exception, the SIGINT handler is the one that was installed
\* just before the call.
C4_HandlerRestored ==
    lastExit.kind \in {"return", "raise"} => sigint = lastExit.previous

\* C5: the number of the first optimization step of run() is 1 for a fresh
\* run and restoredIteration + 1 for a run resumed from a checkpoint, and
\* every later step has the number of the step before it plus 1.
C5_FirstIteration ==
    /\ hist.firstLogged # 0
       => hist.firstLogged = IF run.state THEN run.start_epoch + 1 ELSE 1
    /\ (hist.logged # 0 /\ run.pc = "forward") => run.i = hist.logged + 1

\* C7: a SIGINT that arrives during an iteration of run() stops the loop
\* only once that iteration is over: run() never stops between zeroing the
\* gradients and the end of the optimizer step.
C7_NoTornIteration ==
    run.pc = "stopped" => hist.stoppedAt \notin {"backward", "step"}

\* C8: the iterations of run() are sequential: when the forward pass of
\* iteration i + 1 has started, the optimizer step of iteration i is applied
\* and iteration i is post-processed; the step and the post-processing of an
\* iteration never run ahead of its forward pass.
C8_Sequential ==
    /\ hist.fwd > 1 => (hist.stepped >= hist.fwd - 1 /\ hist.posted >= hist.fwd - 1)
    /\ hist.posted <= hist.stepped
    /\ hist.stepped <= hist.fwd
    /\ run.pc \in Running => model = run.model0 + hist.stepped

\* C8 witness: iteration 3 has started its forward pass after iteration 2
\* was stepped and post-processed.
C8_Witness ==
    /\ run.pc = "zero_grad"
    /\ hist.fwd = 3
    /\ hist.stepped = 2
    /\ hist.posted = 2

\* The ids other than 0 that are left in the crop at idx once the partially
\* visible segments are removed.
SurvivingIds(idx) ==
    {RemovePartial(slide.patches[idx], ZeroData(slide.data))[p] : p \in Cells} \ {0}

\* The slide has a segment other than the background with a non-zero count
\* row.
HasCountedSegment ==
    \E x \in 1..NumSegments :
        /\ x \notin ZeroData(slide.data)
        /\ \E idx \in 0..(NumPatches - 1), p \in Cells : slide.patches[idx][p] = x

\* C6: on a slide with a non-background segment of non-zero counts, a patch
\* that __getitem__(idx) returns has at least one count row; it is the patch
\* of an index whose crop keeps a non-zero id, and every index tried before
\* it, from idx on, had a crop that keeps none.
C6_NoEmptyPatch ==
    (item.res.outcome = "ok" /\ HasCountedSegment)
    => /\ Len(item.res.data) >= 1
       /\ SurvivingIds(item.res.idx) # {}
       /\ item.res.idx = (item.arg + item.res.attempts - 1) % NumPatches
       /\ \A j \in 0..(item.res.attempts - 2) :
              SurvivingIds((item.arg + j) % NumPatches) = {}

\* C6 witness: the crop at the index asked for keeps no id, and the patch of
\* the next index is returned.
C6_Witness ==
    /\ item.res.outcome = "ok"
    /\ item.res.attempts = 2
    /\ item.res.idx # item.arg
    /\ HasCountedSegment
    /\ SurvivingIds(item.arg) = {}

\* C9: with a covariates allowlist, a sample whose value for a listed
\* covariate is not among the allowed categories gets an all-zero column in
\* that covariate's block, and a sample whose value is allowed gets exactly
\* one 1, in the row of its category.
C9_EncodingGap ==
    (covariates.given /\ encoded.outcome = "ok")
    => \A j \in 1..Len(encoded.blocks), x \in 1..NumSamples :
          LET allowed == covariates.list[j].values
              block == encoded.blocks[j]
              v == design.val[covariates.list[j].name][x]
          IN \A r \in 1..Len(block.index) :
                block.cols[x][r] = IF v \in allowed /\ block.index[r] = v THEN 1 ELSE 0

\* C10: zip_dicts raises the 'dict keys are inconsistent' ValueError for
\* every sequence of records in which a record's key set differs from the
\* first record's, and returns a result only when all key sets are equal.
C10_InconsistentKeys ==
    (zipped.outcome # "none" /\ Len(ds) > 0)
    => IF \E j \in 1..Len(ds) : DOMAIN ds[j] # DOMAIN ds[1]
       THEN zipped.outcome = "ValueError"
       ELSE zipped.outcome = "ok"

\* The number of the i-th iteration a call of run() executes: a fresh run
\* counts from 1, a resumed run goes on from the restored number.
IterationNumber(i) == IF run.state THEN run.start_epoch + i ELSE i

\* The multiples of the checkpoint interval the explored iterations can have
\* as their number.
CheckpointNumbers ==
    {k * CheckpointInterval : k \in 1..((MaxIter + CheckpointInterval) \div CheckpointInterval)}

\* C11: run() has written a checkpoint for exactly the completed iterations
\* whose number is a positive multiple of 50000, fresh or resumed; the
\* record and the file name carry that iteration's number, and the record
\* holds the model as that iteration's optimizer step left it.
C11_CheckpointAtMultiples ==
    run.pc \in Running \cup {"stopped"}
    => /\ {c.name : c \in chkpts}
          = {n \in CheckpointNumbers :
                IterationNumber(1) <= n /\ n <= IterationNumber(hist.posted)}
       /\ \A c \in chkpts :
             /\ c.rec.iteration = c.name
             /\ \E i \in 1..hist.posted :
                   /\ IterationNumber(i) = c.name
                   /\ c.rec.model = run.model0 + i

\* C11, fresh runs only: the same statement for the runs that restore no
\* checkpoint, where the number of the i-th iteration is i.
C11_FreshRuns == ~run.state => C11_CheckpointAtMultiples

\* The crop of the patch that was returned, once the partially visible
\* segments are removed.
ReturnedCrop == RemovePartial(slide.patches[item.res.idx], ZeroData(slide.data))

\* The dense rank of pixel value v among the surviving non-zero ids: 0 for
\* the background, j for the j-th smallest id.
DenseRank(ids, v) == Cardinality({x \in ids : x <= v})

\* C12: in every patch __getitem__ returns, a background pixel has label 0
\* and a pixel of the j-th smallest surviving id has label j; the count
\* matrix has one row per surviving id, and row j - 1 is the source count row
\* of the id of rank j.  This is stated for every crop, with or without a
\* pixel of label 0.
C12_DenseRanks ==
    item.res.outcome = "ok"
    => LET ids == SurvivingIds(item.res.idx) IN
       /\ \A p \in Cells : item.res.label[p] = DenseRank(ids, ReturnedCrop[p])
       /\ Len(item.res.data) = Cardinality(ids)
       /\ \A j \in 1..Len(item.res.data) :
             LET x == item.res.data[j].row + 1 IN
             /\ x \in ids
             /\ DenseRank(ids, x) = j
             /\ item.res.data[j].counts = slide.data[x]

\* C12, crops that keep a pixel of label 0: the same statement for the
\* patches whose crop still has background after the removal.
C12_WithBackground ==
    (item.res.outcome = "ok" /\ \E p \in Cells : ReturnedCrop[p] = 0)
    => C12_DenseRanks

\* C13: on a dataset with an index whose crop keeps a non-zero id,
\* __getitem__(idx) returns a patch for every idx: it tries idx, idx + 1, ...
\* modulo len(self), returns the first index whose crop keeps an id, and makes
\* at most len(self) attempts.
C13_Terminates ==
    (/\ item.res.outcome # "none"
     /\ \E idx \in 0..(SlideLen(slide) - 1) : SurvivingIds(idx) # {})
    => /\ item.res.outcome = "ok"
       /\ item.res.attempts <= SlideLen(slide)
       /\ item.res.idx = (item.arg + item.res.attempts - 1) % SlideLen(slide)
       /\ SurvivingIds(item.res.idx) # {}
       /\ \A j \in 0..(item.res.attempts - 2) :
              SurvivingIds((item.arg + j) % SlideLen(slide)) = {}

====
